---- MODULE Spec2Model ----
(***************************************************************************)
(* Remote Control: the client (remote_control_client.py), the MCP server   *)
(* and its tools (WinRemoteMcpServer.py), the interactive session          *)
(* (remote_shell.py), and the agent and local file system they talk to.    *)
(*                                                                         *)
(* Texts (URLs, commands, shell output, error messages) are sequences of   *)
(* one-character strings, so that str.strip() is computed.  A file is      *)
(* `zeros` zero bytes (a multiple of 3) followed by the bytes `data`; its  *)
(* base64 text is `quads` groups "AAAA" followed by the characters         *)
(* `chars` (sextets 0..63, 64 for "=").  This is exact, and lets a file of *)
(* 100 MiB be a value TLC can hold.                                        *)
(***************************************************************************)
EXTENDS Integers, Sequences, FiniteSets, TLC

VARIABLES
    fs,      \* local file system: path -> entry
    remote,  \* the agent's file store: remote path -> stored upload
    last,    \* the last completed client call: arguments, requests sent, outcome
    tool,    \* the MCP server's tool call in progress / last result
    server,  \* the MCP server object: host, port, client
    sh,      \* the interactive session (RemoteShell) and its signal handlers
    cp       \* the file copy tool's call in progress / last result

vars == <<fs, remote, last, tool, server, sh, cp>>

-----------------------------------------------------------------------------
(* Bounds *)

MaxStr == 3     \* longest URL / command / text
MaxLen == 3     \* longest explicit byte string of a file
MaxClients == 3 \* client objects one MCP server creates
MaxRounds == 2  \* input lines one interactive session reads
MaxSignals == 2 \* interrupt signals one interactive session receives

-----------------------------------------------------------------------------
(* Texts and str.strip() *)

Chars == {"a", " "}
Whitespace == {" "}
Str(n) == UNION {[1..k -> Chars] : k \in 0..n}

RECURSIVE lstrip(_)
lstrip(s) == IF s # <<>> /\ Head(s) \in Whitespace THEN lstrip(Tail(s)) ELSE s

RECURSIVE rstrip(_)
rstrip(s) ==
    IF s # <<>> /\ s[Len(s)] \in Whitespace
    THEN rstrip(SubSeq(s, 1, Len(s) - 1))
    ELSE s

strip_left_only(s) == lstrip(s)

strip(s) == rstrip(lstrip(s))

is_blank_no_strip(s) == s = <<>>

\* not s or not s.strip()
is_blank(s) == s = <<>> \/ strip(s) = <<>>

\* JSON null / Python None: no text (a text is a sequence of single characters)
None == <<"None">>

UnknownError == <<"U","n","k","n","o","w","n"," ","e","r","r","o","r">>

-----------------------------------------------------------------------------
(* Files and base64 *)

MAX_UPLOAD == 100 * 1024 * 1024

too_large_inclusive(file_size) == file_size >= MAX_UPLOAD

\* if file_size > 100 * 1024 * 1024
too_large(file_size) == file_size > MAX_UPLOAD

Bytes == {77, 255}
ByteStr(n) == UNION {[1..k -> Bytes] : k \in 0..n}

\* The long run of zero bytes: with 0, 1, 2 more bytes the file is one byte
\* under, exactly at, and one byte over the upload limit.
ZeroRun == MAX_UPLOAD - 1

Absent == [kind |-> "absent", zeros |-> 0, data |-> <<>>]
Dir == [kind |-> "dir", zeros |-> 0, data |-> <<>>]
RegFile(z, d) == [kind |-> "file", zeros |-> z, data |-> d]

SmallFiles == {RegFile(0, d) : d \in ByteStr(MaxLen)}
LargeFiles == {RegFile(ZeroRun, d) : d \in ByteStr(2)}
Files == SmallFiles \cup LargeFiles

Pad == 64

RECURSIVE b64chars(_)
b64chars(bs) ==
    IF Len(bs) = 0 THEN <<>>
    ELSE IF Len(bs) = 1 THEN
        LET n == bs[1] * 65536
        IN  <<n \div 262144, (n \div 4096) % 64, Pad, Pad>>
    ELSE IF Len(bs) = 2 THEN
        LET n == bs[1] * 65536 + bs[2] * 256
        IN  <<n \div 262144, (n \div 4096) % 64, (n \div 64) % 64, Pad>>
    ELSE
        LET n == bs[1] * 65536 + bs[2] * 256 + bs[3]
        IN  <<n \div 262144, (n \div 4096) % 64, (n \div 64) % 64, n % 64>>
            \o b64chars(SubSeq(bs, 4, Len(bs)))

b64encode(f) == [quads |-> f.zeros \div 3, chars |-> b64chars(f.data)]

RECURSIVE b64bytes(_)
b64bytes(cs) ==
    IF cs = <<>> THEN <<>>
    ELSE
        LET s3 == IF cs[3] = Pad THEN 0 ELSE cs[3]
            s4 == IF cs[4] = Pad THEN 0 ELSE cs[4]
            n == cs[1] * 262144 + cs[2] * 4096 + s3 * 64 + s4
            b == <<n \div 65536, (n \div 256) % 256, n % 256>>
            k == IF cs[3] = Pad THEN 1 ELSE IF cs[4] = Pad THEN 2 ELSE 3
        IN  SubSeq(b, 1, k) \o b64bytes(SubSeq(cs, 5, Len(cs)))

\* binascii accepts the text when its length is a multiple of 4 and "=" only
\* ends the last group.
b64valid(c) ==
    /\ Len(c.chars) % 4 = 0
    /\ \A i \in 1..Len(c.chars) :
          c.chars[i] = Pad =>
              /\ i > Len(c.chars) - 2
              /\ i % 4 \in {0, 3}
              /\ \A j \in i..Len(c.chars) : c.chars[j] = Pad

b64decode(c) == RegFile(3 * c.quads, b64bytes(c.chars))

EmptyContent == [quads |-> 0, chars |-> <<>>]

no_content_never(file_content) == FALSE

\* if not file_content
no_content(file_content) == file_content = EmptyContent

-----------------------------------------------------------------------------
(* Local file system (os.path, os.makedirs, open) *)

LocalPaths == {<<"src">>, <<"out">>, <<"out", "dst">>}
RemotePaths == {"C:/a", "C:/b"}

dirname(p) == SubSeq(p, 1, Len(p) - 1)

path_exists(f, p) == f[p].kind # "absent"
isfile(f, p) == f[p].kind = "file"
getsize(f, p) == f[p].zeros + Len(f[p].data)

makedirs(f, d) == [f EXCEPT ![d] = Dir]

\* open(p, 'wb') succeeds when p's directory exists and p is no directory
can_open_wb(f, p) ==
    /\ dirname(p) = <<>> \/ f[dirname(p)].kind = "dir"
    /\ f[p].kind # "dir"

-----------------------------------------------------------------------------
(* What the transport can meet: the outcomes of urllib.request.urlopen *)

\* A JSON field is the empty set when absent and {value} when present.
Get(field, default) == IF field = {} THEN default ELSE CHOOSE v \in field : TRUE

NoBody ==
    [form |-> "none", success |-> {}, error |-> {}, running |-> {},
     exists |-> {}, output |-> {}, content |-> {}, files |-> {},
     name |-> {}, fullName |-> {}, size |-> {}, created |-> {},
     modified |-> {}, hash |-> {}]

Obj(s, e) == [NoBody EXCEPT !.form = "object", !.success = s, !.error = e]

SuccessValues == {{}, {TRUE}, {FALSE}}
ErrorValues == {{}, {<<"a">>}}
BoolValues == {{}, {TRUE}, {FALSE}}
TextValues == {{}, {<<>>}, {<<" ">>}, {<<"a">>}, {None}}
Envelopes == {Obj(s, e) : s \in SuccessValues, e \in ErrorValues}

\* bodies that are not a JSON object: not UTF-8, not JSON, JSON but no object
OddBodies == {[NoBody EXCEPT !.form = f] : f \in {"notutf8", "notjson", "nonobject"}}

CorruptContent == [quads |-> 0, chars |-> <<19, 19>>]

ContentValues(rp) ==
    {{}, {EmptyContent}, {CorruptContent}}
        \cup (IF remote[rp].has THEN {{remote[rp].content}} ELSE {})

InfoBodies ==
    {[b EXCEPT !.name = {"a.txt"}, !.fullName = {"C:/a.txt"}, !.size = {3},
               !.created = {"t0"}, !.modified = {"t1"}, !.hash = {"h"}]
        : b \in Envelopes}
    \cup {[b EXCEPT !.name = {"a.txt"}] : b \in Envelopes}
    \cup Envelopes

Bodies(op, rp) ==
    OddBodies \cup
    CASE op = "get_shell_status" ->
            {[b EXCEPT !.running = v] : b \in Envelopes, v \in BoolValues}
      [] op = "file_exists" ->
            {[b EXCEPT !.exists = v] : b \in Envelopes, v \in BoolValues}
      [] op = "get_shell_output" ->
            {[b EXCEPT !.output = v, !.error = e]
                : b \in Envelopes, v \in TextValues, e \in TextValues}
      [] op = "download_file" ->
            {[b EXCEPT !.content = v] : b \in Envelopes, v \in ContentValues(rp)}
      [] op = "list_files" ->
            {[b EXCEPT !.files = v] : b \in Envelopes, v \in {{}, {<<>>}, {<<"C:/a">>}}}
      [] op = "get_file_info" -> InfoBodies
      [] OTHER -> Envelopes

NoReply == [t |-> "none", status |-> 0, body |-> NoBody]

\* refused: connect fails; connect_timeout: timeout while connecting or sending;
\* read_timeout: timeout while waiting for or reading the response;
\* reset: connection reset while reading; http: a response with a status line
TransportFailures ==
    {[NoReply EXCEPT !.t = k]
        : k \in {"refused", "connect_timeout", "read_timeout", "reset"}}

\* urlopen raises HTTPError on an error status and does not read the body
ErrorStatusBodies ==
    {[NoBody EXCEPT !.form = "notjson"], Obj({TRUE}, {}), Obj({FALSE}, {<<"a">>})}

Replies(op, rp) ==
    TransportFailures
    \cup {[t |-> "http", status |-> 200, body |-> b] : b \in Bodies(op, rp)}
    \cup {[t |-> "http", status |-> 500, body |-> b] : b \in ErrorStatusBodies}

-----------------------------------------------------------------------------
(* Exceptions and outcomes *)

IsA(cls, base) ==
    \/ cls = base
    \/ base = "ConnectionError" /\ cls = "ConnectionResetError"
    \/ base = "ValueError" /\ cls \in {"UnicodeDecodeError", "binascii.Error"}
    \/ base = "Exception" /\ cls # "return"

\* cls = "return": the call returned val; otherwise it raised cls.  wrap is the
\* prefix of an exception re-raised as RuntimeError; detail the agent's message.
Return(v) == [cls |-> "return", tag |-> "", detail |-> <<>>, wrap |-> "", val |-> v]
Raise(cls, tag, detail) ==
    [cls |-> cls, tag |-> tag, detail |-> detail, wrap |-> "", val |-> FALSE]

_make_request(data, timeout, reply) ==
    IF reply.t \in {"refused", "connect_timeout"}
    THEN [exc |-> Raise("ConnectionError", "Unable to connect", <<>>), response |-> NoBody]
    ELSE IF reply.t = "read_timeout"
    THEN [exc |-> Raise("TimeoutError", "timed out", <<>>), response |-> NoBody]
    ELSE IF reply.t = "reset"
    THEN [exc |-> Raise("ConnectionResetError", "Connection reset by peer", <<>>),
          response |-> NoBody]
    ELSE IF reply.status \notin 200..299
    THEN [exc |-> Raise("ConnectionError", "HTTP request failed", <<>>), response |-> NoBody]
    ELSE IF reply.body.form = "notutf8"
    THEN [exc |-> Raise("UnicodeDecodeError", "invalid start byte", <<>>), response |-> NoBody]
    ELSE IF reply.body.form = "notjson"
    THEN [exc |-> Raise("ValueError", "Invalid JSON response from server", <<>>),
          response |-> NoBody]
    ELSE [exc |-> Return(TRUE), response |-> reply.body]

Sent(data, timeout) == <<[data |-> data, timeout |-> timeout]>>

success_default_true(response) == Get(response.success, TRUE) = TRUE

\* if response.get("success")
response_success(response) == Get(response.success, FALSE) = TRUE

server_error_no_default(response) ==
    IF response.error = {}
    THEN Raise("KeyError", "error", <<>>)
    ELSE Raise("RuntimeError", "Server error", Get(response.error, UnknownError))

\* error_msg = response.get("error", "Unknown error")
\* raise RuntimeError(f"Server error: {error_msg}")
server_error(response) ==
    Raise("RuntimeError", "Server error", Get(response.error, UnknownError))

\* if response.get("success"): return value
\* else: raise RuntimeError("Server error: ...")
Envelope(r, value) ==
    IF r.exc.cls # "return" THEN r.exc
    ELSE IF r.response.form # "object"
    THEN Raise("AttributeError", "object has no attribute 'get'", <<>>)
    ELSE IF response_success(r.response) THEN Return(value)
    ELSE server_error(r.response)

Reraise_connection_only(wrap, o) ==
    IF o.cls = "return" THEN o
    ELSE IF IsA(o.cls, "ConnectionError") THEN o
    ELSE [o EXCEPT !.cls = "RuntimeError", !.wrap = wrap]

\* except (ConnectionError, ValueError): raise
\* except Exception as e: raise RuntimeError(f"{wrap}: {e}")
Reraise(wrap, o) ==
    IF o.cls = "return" THEN o
    ELSE IF IsA(o.cls, "ConnectionError") \/ IsA(o.cls, "ValueError") THEN o
    ELSE [o EXCEPT !.cls = "RuntimeError", !.wrap = wrap]

-----------------------------------------------------------------------------
(* RemoteControlClient.__init__, test_connection, get_status *)

Hosts == {"localhost", "10.0.0.2"}
Ports == {8417, 9000}

DefaultHost == "localhost"
DefaultPort == 8417

RemoteControlClient_default(id, host, port) ==
    [id |-> id, host |-> DefaultHost, port |-> DefaultPort,
     base_url |-> <<"http://", DefaultHost, ":", DefaultPort, "/">>]

\* self.host = host; self.port = port; self.base_url = f"http://{host}:{port}/"
\* id is the identity of the object
RemoteControlClient(id, host, port) ==
    [id |-> id, host |-> host, port |-> port,
     base_url |-> <<"http://", host, ":", port, "/">>]

\* what the TCP probe meets: the agent's port accepts; it refuses; nothing
\* answers within the 5 seconds; the host name does not resolve
Probes == {"connected", "refused", "timeout", "unresolved"}

\* sock.connect_ex: 0 or the errno of connect(); host-not-found is raised
connect_ex(probe) ==
    CASE probe = "connected" -> Return(0)
      [] probe = "refused" -> Return(111)
      [] probe = "timeout" -> Return(11)
      [] probe = "unresolved" -> Raise("gaierror", "Name or service not known", <<>>)

test_connection_unguarded(probe) ==
    LET result == connect_ex(probe)
    IN  IF result.cls = "return" THEN Return(result.val = 0) ELSE result

\* try: ... return result == 0; except Exception: return False
test_connection(probe) ==
    LET result == connect_ex(probe)
    IN  IF result.cls = "return" THEN Return(result.val = 0) ELSE Return(FALSE)

get_status(self, probe) ==
    LET is_connected == test_connection(probe)
    IN  IF is_connected.cls # "return" THEN is_connected
        ELSE Return([host |-> self.host, port |-> self.port,
                     connected |-> is_connected.val, url |-> self.base_url])

-----------------------------------------------------------------------------
(* RemoteControlClient: each operation gives its outcome, the requests it   *)
(* sent, and the local file system it leaves.                               *)

Result_retry(o, sent, f) ==
    [out |-> o, sent |-> IF o.cls # "return" THEN sent \o sent ELSE sent, fs |-> f]

Result(o, sent, f) == [out |-> o, sent |-> sent, fs |-> f]

launch_browser(url, reply) ==
    IF is_blank(url)
    THEN Result(Raise("ValueError", "URL cannot be empty", <<>>), <<>>, fs)
    ELSE
        LET data == [action |-> "launch_browser", url |-> strip(url)]
            r == _make_request(data, 10, reply)
        IN  Result(Reraise("Request failed", Envelope(r, TRUE)), Sent(data, 10), fs)

start_shell(reply) ==
    LET data == [action |-> "shell_start"]
        r == _make_request(data, 10, reply)
    IN  Result(Reraise("Request failed", Envelope(r, TRUE)), Sent(data, 10), fs)

send_shell_input(command, reply) ==
    IF is_blank(command)
    THEN Result(Raise("ValueError", "Command cannot be empty", <<>>), <<>>, fs)
    ELSE
        LET data == [action |-> "shell_input", input |-> strip(command)]
            r == _make_request(data, 10, reply)
        IN  Result(Reraise("Request failed", Envelope(r, TRUE)), Sent(data, 10), fs)

get_shell_output(reply) ==
    LET data == [action |-> "shell_output"]
        r == _make_request(data, 10, reply)
        value == [output |-> Get(r.response.output, <<>>),
                  error |-> Get(r.response.error, <<>>)]
    IN  Result(Reraise("Request failed", Envelope(r, value)), Sent(data, 10), fs)

stop_shell(reply) ==
    LET data == [action |-> "shell_stop"]
        r == _make_request(data, 10, reply)
    IN  Result(Reraise("Request failed", Envelope(r, TRUE)), Sent(data, 10), fs)

get_shell_status(reply) ==
    LET data == [action |-> "shell_status"]
        r == _make_request(data, 10, reply)
    IN  Result(Reraise("Request failed", Envelope(r, Get(r.response.running, FALSE))),
               Sent(data, 10), fs)

upload_file(local_path, remote_path, reply) ==
    IF ~path_exists(fs, local_path)
    THEN Result(Raise("FileNotFoundError", "Local file not found", <<>>), <<>>, fs)
    ELSE IF ~isfile(fs, local_path)
    THEN Result(Raise("ValueError", "Path is not a file", <<>>), <<>>, fs)
    ELSE IF too_large(getsize(fs, local_path))
    THEN Result(Raise("ValueError", "File too large", <<>>), <<>>, fs)
    ELSE
        LET file_content == b64encode(fs[local_path])
            data == [action |-> "file_upload", path |-> remote_path,
                     content |-> file_content]
            r == _make_request(data, 120, reply)
        IN  Result(Reraise("Upload failed", Envelope(r, TRUE)), Sent(data, 120), fs)

\* the body of download_file's try block once the request has returned
download_body(r, local_path) ==
    IF r.exc.cls # "return" THEN Result(r.exc, <<>>, fs)
    ELSE IF r.response.form # "object"
    THEN Result(Raise("AttributeError", "object has no attribute 'get'", <<>>), <<>>, fs)
    ELSE IF ~response_success(r.response)
    THEN Result(server_error(r.response), <<>>, fs)
    ELSE
        LET file_content == Get(r.response.content, EmptyContent)
            local_dir == dirname(local_path)
            made == IF local_dir # <<>> /\ ~path_exists(fs, local_dir)
                    THEN makedirs(fs, local_dir)
                    ELSE fs
        IN  IF no_content(file_content)
            THEN Result(Raise("RuntimeError", "No file content received", <<>>), <<>>, fs)
            ELSE IF ~b64valid(file_content)
            THEN Result(Raise("binascii.Error", "Incorrect padding", <<>>), <<>>, fs)
            ELSE IF ~can_open_wb(made, local_path)
            THEN Result(Raise("OSError", "cannot open for writing", <<>>), <<>>, made)
            ELSE Result(Return(TRUE), <<>>,
                        [made EXCEPT ![local_path] = b64decode(file_content)])

download_file(remote_path, local_path, reply) ==
    LET data == [action |-> "file_download", path |-> remote_path]
        r == _make_request(data, 120, reply)
        b == download_body(r, local_path)
    IN  Result(Reraise("Download failed", b.out), Sent(data, 120), b.fs)

file_exists(remote_path, reply) ==
    LET data == [action |-> "file_exists", path |-> remote_path]
        r == _make_request(data, 10, reply)
    IN  Result(Reraise("Request failed", Envelope(r, Get(r.response.exists, FALSE))),
               Sent(data, 10), fs)

get_file_info(remote_path, reply) ==
    LET data == [action |-> "file_info", path |-> remote_path]
        r == _make_request(data, 10, reply)
        value == [name |-> Get(r.response.name, ""),
                  fullName |-> Get(r.response.fullName, ""),
                  size |-> Get(r.response.size, 0),
                  created |-> Get(r.response.created, ""),
                  modified |-> Get(r.response.modified, ""),
                  hash |-> Get(r.response.hash, "")]
    IN  Result(Reraise("Request failed", Envelope(r, value)), Sent(data, 10), fs)

delete_file(remote_path, reply) ==
    LET data == [action |-> "file_delete", path |-> remote_path]
        r == _make_request(data, 10, reply)
    IN  Result(Reraise("Request failed", Envelope(r, TRUE)), Sent(data, 10), fs)

list_files(remote_path, pattern, reply) ==
    LET data == [action |-> "file_list", path |-> remote_path, pattern |-> pattern]
        r == _make_request(data, 10, reply)
    IN  Result(Reraise("Request failed", Envelope(r, Get(r.response.files, <<>>))),
               Sent(data, 10), fs)

-----------------------------------------------------------------------------
(* The agent's file store.  The agent keeps what an accepted file_upload     *)
(* carried and forgets what an accepted file_delete names.                   *)

NoStored == [has |-> FALSE, content |-> EmptyContent, orig |-> Absent]

Accepted(reply) ==
    /\ reply.t = "http"
    /\ reply.status = 200
    /\ reply.body.form = "object"
    /\ reply.body.success = {TRUE}

AgentStore(res, reply, local_path) ==
    IF res.sent # <<>> /\ Accepted(reply)
    THEN LET d == res.sent[1].data
         IN  IF d.action = "file_upload"
             THEN [remote EXCEPT ![d.path] =
                      [has |-> TRUE, content |-> d.content, orig |-> fs[local_path]]]
             ELSE IF d.action = "file_delete"
             THEN [remote EXCEPT ![d.path] = NoStored]
             ELSE remote
    ELSE remote

-----------------------------------------------------------------------------------------------------------------------------------------------------
(* Calls of the client.  A call is one blocking method call: the operation   *)
(* validates its arguments and either raises at once or sends its request;   *)
(* the call then waits (last.phase = "pending") until the transport's        *)
(* outcome arrives, which Respond hands to the rest of the method.           *)

Apply(op, text, local_path, remote_path, pattern, reply) ==
    CASE op = "launch_browser" -> launch_browser(text, reply)
      [] op = "start_shell" -> start_shell(reply)
      [] op = "send_shell_input" -> send_shell_input(text, reply)
      [] op = "get_shell_output" -> get_shell_output(reply)
      [] op = "stop_shell" -> stop_shell(reply)
      [] op = "get_shell_status" -> get_shell_status(reply)
      [] op = "upload_file" -> upload_file(local_path, remote_path, reply)
      [] op = "download_file" -> download_file(remote_path, local_path, reply)
      [] op = "file_exists" -> file_exists(remote_path, reply)
      [] op = "get_file_info" -> get_file_info(remote_path, reply)
      [] op = "delete_file" -> delete_file(remote_path, reply)
      [] op = "list_files" -> list_files(remote_path, pattern, reply)

NoCall ==
    [phase |-> "none", op |-> "none", text |-> <<>>, local |-> <<>>, rpath |-> "",
     pattern |-> "", probe |-> "", reply |-> NoReply, sent |-> <<>>,
     out |-> Return(TRUE), pre |-> fs]

\* the call begins: it has raised (done) or its request is in flight (pending)
Begin(op, text, local_path, remote_path, pattern) ==
    LET res == Apply(op, text, local_path, remote_path, pattern, NoReply)
    IN  [phase |-> IF res.sent = <<>> THEN "done" ELSE "pending",
         op |-> op, text |-> text, local |-> local_path,
         rpath |-> remote_path, pattern |-> pattern, probe |-> "",
         reply |-> NoReply, sent |-> res.sent,
         out |-> IF res.sent = <<>> THEN res.out ELSE Return(TRUE),
         pre |-> fs]

Patterns == {"*", "*.txt"}

LaunchBrowser ==
    /\ last.phase # "pending"
    /\ \E url \in Str(MaxStr) : last' = Begin("launch_browser", url, <<>>, "", "")
    /\ UNCHANGED <<fs, remote, tool, server, sh, cp>>

StartShell ==
    /\ last.phase # "pending"
    /\ last' = Begin("start_shell", <<>>, <<>>, "", "")
    /\ UNCHANGED <<fs, remote, tool, server, sh, cp>>

SendShellInput ==
    /\ last.phase # "pending"
    /\ \E command \in Str(MaxStr) :
          last' = Begin("send_shell_input", command, <<>>, "", "")
    /\ UNCHANGED <<fs, remote, tool, server, sh, cp>>

GetShellOutput ==
    /\ last.phase # "pending"
    /\ last' = Begin("get_shell_output", <<>>, <<>>, "", "")
    /\ UNCHANGED <<fs, remote, tool, server, sh, cp>>

StopShell ==
    /\ last.phase # "pending"
    /\ last' = Begin("stop_shell", <<>>, <<>>, "", "")
    /\ UNCHANGED <<fs, remote, tool, server, sh, cp>>

GetShellStatus ==
    /\ last.phase # "pending"
    /\ last' = Begin("get_shell_status", <<>>, <<>>, "", "")
    /\ UNCHANGED <<fs, remote, tool, server, sh, cp>>

UploadFile ==
    /\ last.phase # "pending"
    /\ \E lp \in LocalPaths, rp \in RemotePaths :
          last' = Begin("upload_file", <<>>, lp, rp, "")
    /\ UNCHANGED <<fs, remote, tool, server, sh, cp>>

DownloadFile ==
    /\ last.phase # "pending"
    /\ \E rp \in RemotePaths, lp \in LocalPaths :
          last' = Begin("download_file", <<>>, lp, rp, "")
    /\ UNCHANGED <<fs, remote, tool, server, sh, cp>>

FileExists ==
    /\ last.phase # "pending"
    /\ \E rp \in RemotePaths : last' = Begin("file_exists", <<>>, <<>>, rp, "")
    /\ UNCHANGED <<fs, remote, tool, server, sh, cp>>

GetFileInfo ==
    /\ last.phase # "pending"
    /\ \E rp \in RemotePaths : last' = Begin("get_file_info", <<>>, <<>>, rp, "")
    /\ UNCHANGED <<fs, remote, tool, server, sh, cp>>

DeleteFile ==
    /\ last.phase # "pending"
    /\ \E rp \in RemotePaths : last' = Begin("delete_file", <<>>, <<>>, rp, "")
    /\ UNCHANGED <<fs, remote, tool, server, sh, cp>>

ListFiles ==
    /\ last.phase # "pending"
    /\ \E rp \in RemotePaths, pattern \in Patterns :
          last' = Begin("list_files", <<>>, <<>>, rp, pattern)
    /\ UNCHANGED <<fs, remote, tool, server, sh, cp>>

\* test_connection and get_status open a TCP connection and send no request
TestConnection ==
    /\ last.phase # "pending"
    /\ \E probe \in Probes :
          last' = [NoCall EXCEPT !.phase = "done", !.op = "test_connection",
                                 !.probe = probe, !.out = test_connection(probe)]
    /\ UNCHANGED <<fs, remote, tool, server, sh, cp>>

GetStatus ==
    /\ last.phase # "pending"
    /\ \E probe \in Probes, host \in Hosts, port \in Ports :
          last' = [NoCall EXCEPT
                      !.phase = "done", !.op = "get_status", !.probe = probe,
                      !.out = get_status(RemoteControlClient(0, host, port), probe)]
    /\ UNCHANGED <<fs, remote, tool, server, sh, cp>>

\* the transport's outcome arrives and the method runs to its end
Respond ==
    /\ last.phase = "pending"
    /\ \E reply \in Replies(last.op, last.rpath) :
          LET res == Apply(last.op, last.text, last.local, last.rpath,
                           last.pattern, reply)
          IN  /\ last' = [last EXCEPT !.phase = "done", !.reply = reply,
                                      !.sent = res.sent, !.out = res.out]
              /\ fs' = res.fs
              /\ remote' = AgentStore(res, reply, last.local)
    /\ UNCHANGED <<tool, server, sh, cp>>

-----------------------------------------------------------------------------
(* The MCP server (WinRemoteMcpServer.py).  handle_call_tool first makes sure *)
(* the server holds a client, then runs the tool's handler.  A handler that  *)
(* does not await is one step.  _shell_command makes up to four blocking     *)
(* client calls; tool.pc names the next one.  It awaits (sleeps) after a     *)
(* successful start_shell and after a successful send_shell_input.           *)

\* self.client = None; self.host = "localhost"; self.port = 8417
NewServer == [host |-> DefaultHost, port |-> DefaultPort, client |-> {}, made |-> 0]

\* if self.client is None: self.client = RemoteControlClient(self.host, self.port)
_ensure_client_initialized(srv) ==
    IF srv.client = {}
    THEN [srv EXCEPT !.client = {RemoteControlClient(srv.made + 1, srv.host, srv.port)},
                     !.made = @ + 1]
    ELSE srv

NoResult ==
    [success |-> FALSE, output |-> <<>>, error |-> <<>>, connected |-> FALSE,
     shell_running |-> FALSE, exc |-> Return(TRUE)]

\* accepted: the agent accepted every request of the call so far; running: the
\* running field of the shell_status answer; drained: the output and error
\* fields of the shell_output answer; targets: for each request sent, the
\* base_url of the client that sent it
IdleTool ==
    [name |-> "", pc |-> "idle", command |-> <<>>, auto_start |-> TRUE,
     working_directory |-> {}, probe |-> "", sent |-> <<>>, targets |-> <<>>,
     accepted |-> TRUE,
     running |-> {}, drained |-> [output |-> {}, error |-> {}],
     result |-> NoResult]

\* self.client, as the handler reads it when it makes a call
TheClient(srv) == CHOOSE c \in srv.client : TRUE

\* the targets of the requests in sent, all made through self.client now
TargetsOf(sent, srv) == [i \in 1..Len(sent) |-> TheClient(srv).base_url]

\* except Exception as e: result = {"success": False, "error": str(e)}
Failure(o) == [NoResult EXCEPT !.exc = o]

\* self.client.start_shell(working_directory): start_shell(self) takes no
\* argument, so a call that passes one raises TypeError before any request
call_start_shell(args, reply) ==
    IF Len(args) # 0
    THEN Result(Raise("TypeError", "takes 1 positional argument but 2 were given", <<>>),
                <<>>, fs)
    ELSE start_shell(reply)

\* self.client.change_directory(directory): RemoteControlClient has no such
\* method, so the attribute lookup raises before any request
call_change_directory(directory, reply) ==
    Result(Raise("AttributeError", "object has no attribute 'change_directory'", <<>>),
           <<>>, fs)

WorkingDirectories == {{}, {"C:/w"}}

\* commands of a shell_command call: empty, blank, plain, padded
Commands == {<<>>, <<" ">>, <<"a">>, <<" ", "a", " ">>}

\* _shell_start
ShellStartTool ==
    /\ tool.pc \in {"idle", "done"}
    /\ \E wd \in WorkingDirectories, reply \in Replies("start_shell", "") :
          LET res == call_start_shell(<<wd>>, reply)
          IN  tool' = [IdleTool EXCEPT
                  !.name = "shell_start", !.pc = "done",
                  !.working_directory = wd, !.sent = res.sent,
                  !.accepted = Accepted(reply),
                  !.result = IF res.out.cls # "return" THEN Failure(res.out)
                             ELSE [NoResult EXCEPT !.success = res.out.val]]
    /\ server' = _ensure_client_initialized(server)
    /\ UNCHANGED <<fs, remote, last, sh, cp>>

\* _shell_cd
ShellCdTool ==
    /\ tool.pc \in {"idle", "done"}
    /\ \E directory \in {"C:/w"}, reply \in Replies("start_shell", "") :
          LET res == call_change_directory(directory, reply)
          IN  tool' = [IdleTool EXCEPT
                  !.name = "shell_cd", !.pc = "done",
                  !.working_directory = {directory}, !.sent = res.sent,
                  !.accepted = Accepted(reply),
                  !.result = IF res.out.cls # "return" THEN Failure(res.out)
                             ELSE [NoResult EXCEPT !.success = res.out.val]]
    /\ server' = _ensure_client_initialized(server)
    /\ UNCHANGED <<fs, remote, last, sh, cp>>

\* _test_connection
TestConnectionTool ==
    /\ tool.pc \in {"idle", "done"}
    /\ \E probe \in Probes :
          LET connected == test_connection(probe)
          IN  tool' = [IdleTool EXCEPT
                  !.name = "test_connection", !.pc = "done", !.probe = probe,
                  !.result = IF connected.cls # "return" THEN Failure(connected)
                             ELSE [NoResult EXCEPT !.connected = connected.val]]
    /\ server' = _ensure_client_initialized(server)
    /\ UNCHANGED <<fs, remote, last, sh, cp>>

\* _get_status: the client's status record and, when it says connected, the
\* shell status; any exception gives the error result, connected False
GetStatusTool ==
    /\ tool.pc \in {"idle", "done"}
    /\ \E probe \in Probes, reply \in Replies("get_shell_status", "") :
          LET self == _ensure_client_initialized(server)
              status == get_status(TheClient(self), probe)
              res == IF status.cls # "return" THEN Result(status, <<>>, fs)
                     ELSE IF status.val.connected THEN get_shell_status(reply)
                     ELSE Result(Return(FALSE), <<>>, fs)
          IN  tool' = [IdleTool EXCEPT
                  !.name = "get_status", !.pc = "done", !.probe = probe,
                  !.sent = res.sent,
                  !.targets = TargetsOf(res.sent, self),
                  !.accepted = res.sent = <<>> \/ Accepted(reply),
                  !.result = IF res.out.cls # "return" THEN Failure(res.out)
                             ELSE [NoResult EXCEPT
                                      !.connected = status.val.connected,
                                      !.shell_running = res.out.val]]
    /\ server' = _ensure_client_initialized(server)
    /\ UNCHANGED <<fs, remote, last, sh, cp>>

\* _configure_connection.  It does not await, so it runs between two tool
\* calls or while _shell_command sleeps before it drains.
ConfigureConnection ==
    /\ tool.pc \in {"idle", "done", "output"}
    /\ _ensure_client_initialized(server).made < MaxClients
    /\ \E host \in {{}} \cup {{h} : h \in Hosts},
          port \in {{}} \cup {{n} : n \in Ports} :
          LET self == _ensure_client_initialized(server)
              h == Get(host, self.host)
              n == Get(port, self.port)
          IN  server' = [host |-> h, port |-> n,
                         client |-> {RemoteControlClient(self.made + 1, h, n)},
                         made |-> self.made + 1]
    /\ UNCHANGED <<fs, remote, last, tool, sh, cp>>

\* command = arguments["command"]; auto_start = arguments.get("auto_start", True)
ShellCommandCall ==
    /\ tool.pc \in {"idle", "done"}
    /\ \E command \in Commands, auto \in {{}, {TRUE}, {FALSE}},
          wd \in WorkingDirectories :
          tool' = [IdleTool EXCEPT
                  !.name = "shell_command",
                  !.pc = IF Get(auto, TRUE) THEN "status" ELSE "input",
                  !.command = command, !.auto_start = Get(auto, TRUE),
                  !.working_directory = wd]
    /\ server' = _ensure_client_initialized(server)
    /\ UNCHANGED <<fs, remote, last, sh, cp>>

\* if auto_start and not self.client.get_shell_status():
ShellCommandStatus ==
    /\ tool.pc = "status"
    /\ \E reply \in Replies("get_shell_status", "") :
          LET res == get_shell_status(reply)
          IN  tool' = [tool EXCEPT
                  !.sent = @ \o res.sent,
                  !.targets = @ \o TargetsOf(res.sent, server),
                  !.accepted = @ /\ Accepted(reply),
                  !.running = reply.body.running,
                  !.pc = IF res.out.cls # "return" THEN "done"
                         ELSE IF res.out.val THEN "input" ELSE "start",
                  !.result = IF res.out.cls # "return" THEN Failure(res.out) ELSE @]
    /\ UNCHANGED <<fs, remote, last, server, sh, cp>>

\* self.client.start_shell(working_directory); await asyncio.sleep(0.1)
ShellCommandStart ==
    /\ tool.pc = "start"
    /\ \E reply \in Replies("start_shell", "") :
          LET res == call_start_shell(<<tool.working_directory>>, reply)
          IN  tool' = [tool EXCEPT
                  !.sent = @ \o res.sent,
                  !.targets = @ \o TargetsOf(res.sent, server),
                  !.accepted = @ /\ (res.sent = <<>> \/ Accepted(reply)),
                  !.pc = IF res.out.cls # "return" THEN "done" ELSE "input",
                  !.result = IF res.out.cls # "return" THEN Failure(res.out) ELSE @]
    /\ UNCHANGED <<fs, remote, last, server, sh, cp>>

\* self.client.send_shell_input(command); await asyncio.sleep(0.5)
ShellCommandInput ==
    /\ tool.pc = "input"
    /\ \E reply \in Replies("send_shell_input", "") :
          LET res == send_shell_input(tool.command, reply)
          IN  tool' = [tool EXCEPT
                  !.sent = @ \o res.sent,
                  !.targets = @ \o TargetsOf(res.sent, server),
                  !.accepted = @ /\ (res.sent = <<>> \/ Accepted(reply)),
                  !.pc = IF res.out.cls # "return" THEN "done" ELSE "output",
                  !.result = IF res.out.cls # "return" THEN Failure(res.out) ELSE @]
    /\ UNCHANGED <<fs, remote, last, server, sh, cp>>

\* output_result = self.client.get_shell_output(); the result is built
ShellCommandOutput ==
    /\ tool.pc = "output"
    /\ \E reply \in Replies("get_shell_output", "") :
          LET res == get_shell_output(reply)
          IN  tool' = [tool EXCEPT
                  !.sent = @ \o res.sent,
                  !.targets = @ \o TargetsOf(res.sent, server),
                  !.accepted = @ /\ Accepted(reply),
                  !.drained = [output |-> reply.body.output,
                               error |-> reply.body.error],
                  !.pc = "done",
                  !.result = IF res.out.cls # "return" THEN Failure(res.out)
                             ELSE [NoResult EXCEPT
                                      !.success = TRUE,
                                      !.output = res.out.val.output,
                                      !.error = res.out.val.error]]
    /\ UNCHANGED <<fs, remote, last, server, sh, cp>>

-----------------------------------------------------------------------------
(* The interactive session (remote_shell.py).  One thread runs start(), the  *)
(* loop and stop(); sh.pc is its position.  A request of the loop or of      *)
(* stop() is in flight between the step that sends it and the step that      *)
(* takes its outcome.  Once the handler is installed, an interrupt signal    *)
(* runs _signal_handler on top of whatever the thread is doing, another      *)
(* handler included: sh.frames is the stack of the handlers that have not    *)
(* returned, and only the topmost one moves.                                 *)

\* the session after RemoteShell.__init__: self.running = False
\*   stops: shell_stop requests sent; stopped: how the last stop_shell ended
\*   probe: what test_connection met; answer: what get_shell_status gave
\*   line: the line input() returned last; exc: the class of the exception the
\*   last send or drain of the loop ended with ("" when it returned)
NewSession ==
    [pc |-> "new", running |-> FALSE, installed |-> FALSE, frames |-> <<>>,
     sent |-> <<>>, inflight |-> 0, stops |-> 0, rounds |-> 0, signals |-> 0,
     probe |-> "", answer |-> "",
     line |-> <<>>, exc |-> "",
     shown |-> [output |-> <<>>, error |-> <<>>],
     reported |-> [where |-> "", cls |-> ""],
     stopped |-> "", escaped |-> FALSE]

\* end of input (input() raises EOFError): no line
EOF == <<"EOF">>
Exit == <<"e", "x", "i", "t">>
Lines == {<<>>, <<" ">>, <<"a">>, <<" ", "a">>, Exit, <<" ", "E", "X", "I", "T">>}

\* str.lower()
lower_identity(s) == s

lower(s) ==
    [i \in 1..Len(s) |->
        CASE s[i] = "E" -> "e" [] s[i] = "X" -> "x" [] s[i] = "I" -> "i"
          [] s[i] = "T" -> "t" [] OTHER -> s[i]]

ActionsOf(sent) == [i \in 1..Len(sent) |-> sent[i].data.action]

\* _flush_output on the outcome o of get_shell_output: what is displayed, and
\* the class of the exception it reports ("" when none)
_flush_output(o) ==
    IF o.cls # "return"
    THEN [shown |-> [output |-> <<>>, error |-> <<>>], exc |-> o.cls]
    ELSE IF o.val.output = None
    THEN [shown |-> [output |-> <<>>, error |-> <<>>], exc |-> "AttributeError"]
    ELSE
        LET out == IF strip(o.val.output) # <<>> THEN o.val.output ELSE <<>>
        IN  IF o.val.error = None
            THEN [shown |-> [output |-> out, error |-> <<>>], exc |-> "AttributeError"]
            ELSE [shown |-> [output |-> out,
                             error |-> IF strip(o.val.error) # <<>>
                                       THEN o.val.error ELSE <<>>],
                  exc |-> ""]

stop_catches_connection_only(cls) == IsA(cls, "ConnectionError")

\* stop(): except Exception as e: print(f"Error stopping shell: {e}")
stop_catches(cls) == IsA(cls, "Exception")

\* stop() runs in the topmost handler, or in the thread when no handler runs
StopAt(p) ==
    IF sh.frames # <<>> THEN sh.frames[Len(sh.frames)].pc = p ELSE sh.pc = p

SetStopPc(s, p) ==
    IF s.frames # <<>>
    THEN [s EXCEPT !.frames[Len(s.frames)].pc = p]
    ELSE [s EXCEPT !.pc = p]

\* stop() returns: the handler returns to what it interrupted; after the loop
\* start() returns True and the process exits
StopReturn(s) ==
    IF s.frames # <<>>
    THEN [s EXCEPT !.frames = SubSeq(s.frames, 1, Len(s.frames) - 1)]
    ELSE [s EXCEPT !.pc = "exited"]

\* start(): if not self.client.test_connection(): return False
SessionStart ==
    /\ sh.pc = "new"
    /\ \E probe \in Probes :
          sh' = [sh EXCEPT !.probe = probe,
                           !.pc = IF test_connection(probe).val THEN "status"
                                  ELSE "returned"]
    /\ UNCHANGED <<fs, remote, last, tool, server, cp>>

after_status_always_start(o) == "start"

\* start(): where the outcome o of get_shell_status leads: the shell is
\* started when it is not running; except Exception: return False
after_status(o) ==
    IF o.cls # "return" THEN "returned"
    ELSE IF o.val THEN "install" ELSE "start"

\* start(): if self.client.get_shell_status(): ... except Exception: return False
SessionShellStatus ==
    /\ sh.pc = "status"
    /\ \E reply \in Replies("get_shell_status", "") :
          LET res == get_shell_status(reply)
          IN  sh' = [sh EXCEPT
                  !.sent = @ \o ActionsOf(res.sent),
                  !.answer = IF res.out.cls # "return" THEN "error"
                             ELSE IF res.out.val THEN "true" ELSE "false",
                  !.pc = after_status(res.out),
                  !.reported = IF res.out.cls # "return"
                               THEN [where |-> "Error starting shell",
                                     cls |-> res.out.cls]
                               ELSE @]
    /\ UNCHANGED <<fs, remote, last, tool, server, cp>>

\* start(): self.client.start_shell() ... except Exception: return False
SessionStartShell ==
    /\ sh.pc = "start"
    /\ \E reply \in Replies("start_shell", "") :
          LET res == call_start_shell(<<>>, reply)
          IN  sh' = [sh EXCEPT
                  !.sent = @ \o ActionsOf(res.sent),
                  !.pc = IF res.out.cls # "return" THEN "returned" ELSE "install",
                  !.reported = IF res.out.cls # "return"
                               THEN [where |-> "Error starting shell",
                                     cls |-> res.out.cls]
                               ELSE @]
    /\ UNCHANGED <<fs, remote, last, tool, server, cp>>

\* signal.signal(signal.SIGINT, self._signal_handler)
SessionInstall ==
    /\ sh.pc = "install"
    /\ sh' = [sh EXCEPT !.pc = "enter", !.installed = TRUE]
    /\ UNCHANGED <<fs, remote, last, tool, server, cp>>

\* self.running = True; self._run_shell_loop()
SessionEnter ==
    /\ sh.pc = "enter"
    /\ sh.frames = <<>>
    /\ sh' = [sh EXCEPT !.pc = "loop", !.running = TRUE]
    /\ UNCHANGED <<fs, remote, last, tool, server, cp>>

\* while self.running: self._flush_output() -- the drain is sent; when the
\* flag is clear the loop ends and stop() is called
LoopFlush ==
    /\ sh.pc = "loop"
    /\ sh.frames = <<>>
    /\ sh' = IF sh.running
             THEN [sh EXCEPT !.pc = "flush1_wait", !.inflight = @ + 1,
                             !.line = <<>>, !.exc = "",
                             !.sent = @ \o ActionsOf(get_shell_output(NoReply).sent)]
             ELSE [sh EXCEPT !.pc = "stop"]
    /\ UNCHANGED <<fs, remote, last, tool, server, cp>>

\* _flush_output: the outcome of the drain is displayed or reported
FlushReply ==
    /\ sh.pc \in {"flush1_wait", "flush2_wait"}
    /\ sh.frames = <<>>
    /\ \E reply \in Replies("get_shell_output", "") :
          LET f == _flush_output(get_shell_output(reply).out)
          IN  sh' = [sh EXCEPT
                  !.inflight = @ - 1,
                  !.pc = IF sh.pc = "flush1_wait" THEN "input" ELSE "loop",
                  !.shown = f.shown,
                  !.exc = f.exc,
                  !.reported = IF f.exc # ""
                               THEN [where |-> "Error getting output", cls |-> f.exc]
                               ELSE @]
    /\ UNCHANGED <<fs, remote, last, tool, server, cp>>

\* command = input("remote> "); EOF and exit end the loop, a blank line starts
\* the next iteration, any other line is sent
LoopInput ==
    /\ sh.pc = "input"
    /\ sh.frames = <<>>
    /\ \E command \in (IF sh.rounds < MaxRounds THEN Lines ELSE {}) \cup {EOF} :
          sh' = IF command = EOF \/ lower(strip(command)) = Exit
                THEN [sh EXCEPT !.pc = "stop", !.line = command, !.exc = ""]
                ELSE IF strip(command) = <<>>
                THEN [sh EXCEPT !.pc = "loop", !.rounds = @ + 1,
                                !.line = command, !.exc = ""]
                ELSE LET res == send_shell_input(command, NoReply)
                     IN  [sh EXCEPT !.pc = "send_wait", !.rounds = @ + 1,
                                    !.line = command, !.exc = "",
                                    !.inflight = @ + 1,
                                    !.sent = @ \o ActionsOf(res.sent)]
    /\ UNCHANGED <<fs, remote, last, tool, server, cp>>

after_send_continue(o) == "sleep"

\* where the outcome o of send_shell_input leads: the sleep and the second
\* drain, or (except Exception: print("Error sending command"); break) stop()
after_send(o) == IF o.cls # "return" THEN "stop" ELSE "sleep"

\* self.client.send_shell_input(command) returns or raises
SendReply ==
    /\ sh.pc = "send_wait"
    /\ sh.frames = <<>>
    /\ \E reply \in Replies("send_shell_input", "") :
          LET res == send_shell_input(sh.line, reply)
          IN  sh' = [sh EXCEPT
                  !.inflight = @ - 1,
                  !.exc = IF res.out.cls # "return" THEN res.out.cls ELSE "",
                  !.pc = after_send(res.out),
                  !.reported = IF res.out.cls # "return"
                               THEN [where |-> "Error sending command",
                                     cls |-> res.out.cls]
                               ELSE @]
    /\ UNCHANGED <<fs, remote, last, tool, server, cp>>

\* time.sleep(0.1); self._flush_output() -- the second drain is sent
LoopFlushAfter ==
    /\ sh.pc = "sleep"
    /\ sh.frames = <<>>
    /\ sh' = [sh EXCEPT !.pc = "flush2_wait", !.inflight = @ + 1,
                        !.line = <<>>,
                        !.sent = @ \o ActionsOf(get_shell_output(NoReply).sent)]
    /\ UNCHANGED <<fs, remote, last, tool, server, cp>>

\* stop(): if not self.running: return
StopCheck ==
    /\ StopAt("stop")
    /\ LET s == IF sh.frames = <<>> THEN [sh EXCEPT !.line = <<>>, !.exc = ""]
                ELSE sh
       IN  sh' = IF ~sh.running THEN StopReturn(s)
                 ELSE SetStopPc(s, "stop_clear")
    /\ UNCHANGED <<fs, remote, last, tool, server, cp>>

\* stop(): self.running = False; self.client.stop_shell() -- the request is sent
StopClear ==
    /\ StopAt("stop_clear")
    /\ LET s == [sh EXCEPT !.running = FALSE, !.inflight = @ + 1, !.stops = @ + 1,
                           !.sent = @ \o ActionsOf(stop_shell(NoReply).sent)]
       IN  sh' = IF s.frames # <<>>
                 THEN [s EXCEPT !.frames[Len(s.frames)].pc = "stop_wait",
                                !.frames[Len(s.frames)].own = @ + 1]
                 ELSE [s EXCEPT !.pc = "stop_wait"]
    /\ UNCHANGED <<fs, remote, last, tool, server, cp>>

\* stop(): stop_shell returns or raises; an exception that is caught is
\* reported, any other leaves stop() and the handler
StopReply ==
    /\ StopAt("stop_wait")
    /\ \E reply \in Replies("stop_shell", "") :
          LET o == stop_shell(reply).out
              s == [sh EXCEPT !.inflight = @ - 1, !.stopped = o.cls]
          IN  sh' = IF o.cls = "return" THEN StopReturn(s)
                    ELSE IF stop_catches(o.cls)
                    THEN StopReturn([s EXCEPT !.reported =
                                        [where |-> "Error stopping shell",
                                         cls |-> o.cls]])
                    ELSE [s EXCEPT !.escaped = TRUE, !.frames = <<>>,
                                   !.pc = "crashed"]
    /\ UNCHANGED <<fs, remote, last, tool, server, cp>>

\* SIGINT with the handler installed: _signal_handler runs, and calls stop()
Signal ==
    /\ sh.installed
    /\ sh.pc \notin {"exited", "crashed"}
    /\ sh.signals < MaxSignals
    /\ sh' = [sh EXCEPT
                 !.signals = @ + 1,
                 !.frames = [i \in 1..Len(sh.frames) |->
                                [sh.frames[i] EXCEPT !.nested = TRUE]]
                            \o <<[pc |-> "stop", was_running |-> sh.running,
                                  base |-> sh.stops, own |-> 0,
                                  nested |-> FALSE]>>]
    /\ UNCHANGED <<fs, remote, last, tool, server, cp>>

\* SIGINT before the handler is installed: KeyboardInterrupt leaves start();
\* main() calls shell.stop(), which returns at once, and exits
Interrupt ==
    /\ ~sh.installed
    /\ sh.pc \in {"status", "start", "install"}
    /\ sh.signals < MaxSignals
    /\ sh' = [sh EXCEPT !.pc = "exited", !.signals = @ + 1]
    /\ UNCHANGED <<fs, remote, last, tool, server, cp>>

\* _flush_output() on its own: one drain, whose outcome is displayed or
\* reported; last keeps the call and what it returned
FlushOutput ==
    /\ \E reply \in Replies("get_shell_output", "") :
          LET res == get_shell_output(reply)
              f == _flush_output(res.out)
          IN  /\ last' = [NoCall EXCEPT !.phase = "done", !.op = "get_shell_output",
                                        !.reply = reply, !.sent = res.sent,
                                        !.out = res.out]
              /\ sh' = [sh EXCEPT
                      !.shown = f.shown,
                      !.exc = f.exc,
                      !.reported = IF f.exc # ""
                                   THEN [where |-> "Error getting output",
                                         cls |-> f.exc]
                                   ELSE @]
    /\ UNCHANGED <<fs, remote, tool, server, cp>>

-----------------------------------------------------------------------------
(* The file copy tool (file_copy.py).  copy_file is one blocking call that    *)
(* makes up to four client calls in turn; cp.pc names the next one.  A path   *)
(* text names a local file or, behind the prefix, a file of the agent.       *)

Prefix == <<"r", "e", "m", "o", "t", "e", ":">>

\* str.startswith
startswith(s, prefix) ==
    Len(s) >= Len(prefix) /\ SubSeq(s, 1, Len(prefix)) = prefix

parse_path_keep_prefix(path) == <<startswith(path, Prefix), path>>

\* parse_path: (is_remote, path[7:]) behind the prefix, (False, path) otherwise
parse_path(path) ==
    IF startswith(path, Prefix)
    THEN <<TRUE, SubSeq(path, Len(Prefix) + 1, Len(path))>>
    ELSE <<FALSE, path>>

\* the local files and the agent's files that the path texts name
LocalNames ==
    (<<"s">> :> <<"src">>) @@ (<<"o">> :> <<"out">>)
        @@ (<<"o", "/", "d">> :> <<"out", "dst">>)
RemoteNames == (<<"a">> :> "C:/a") @@ (<<"b">> :> "C:/b")

\* arguments of copy_file
CopyPaths ==
    {<<"s">>, <<"o", "/", "d">>, Prefix \o <<"a">>, Prefix \o <<"b">>}

\* arguments of parse_path: with the prefix, with parts and variants of it
ParsePaths ==
    CopyPaths
        \cup {<<>>, Prefix, Prefix \o Prefix \o <<"a">>, Prefix \o <<" ">>,
              SubSeq(Prefix, 1, 6), SubSeq(Prefix, 1, 6) \o <<"a">>,
              SubSeq(Prefix, 2, 7) \o <<"a">>,
              <<" ">> \o Prefix \o <<"a">>, <<"a">> \o Prefix,
              <<"R">> \o SubSeq(Prefix, 2, 7) \o <<"a">>,
              <<"r", "e", "m", "o", "t", "e", "/", "a">>}

\* the tool after FileCopyTool.__init__
\*   src, dst: what parse_path gave; probe: what test_connection met ("" when
\*   it was not called); exists: what file_exists returned
NoCopy ==
    [pc |-> "idle", source |-> <<>>, destination |-> <<>>, verbose |-> TRUE,
     src |-> <<FALSE, <<>>>>, dst |-> <<FALSE, <<>>>>, probe |-> "",
     sent |-> <<>>, exists |-> {}, result |-> {}]

same_side_never(src_is_remote, dst_is_remote) == FALSE

\* copy_file: if src_is_remote == dst_is_remote: ... return False
same_side(src_is_remote, dst_is_remote) == src_is_remote = dst_is_remote

\* parse_path(path) on its own
ParsePath ==
    /\ cp.pc \in {"idle", "parsed", "done"}
    /\ \E path \in ParsePaths :
          cp' = [NoCopy EXCEPT !.pc = "parsed", !.source = path,
                               !.src = parse_path(path)]
    /\ UNCHANGED <<fs, remote, last, tool, server, sh>>

\* copy_file: both paths are parsed; two paths of the same side, a failed
\* probe or a missing local source return False; otherwise the first request
\* is file_exists (download) or file_upload
CopyFile ==
    /\ cp.pc \in {"idle", "parsed", "done"}
    /\ \E source \in CopyPaths, destination \in CopyPaths, verbose \in BOOLEAN,
          probe \in Probes :
          LET src == parse_path(source)
              dst == parse_path(destination)
              call == [NoCopy EXCEPT !.source = source,
                                     !.destination = destination,
                                     !.verbose = verbose,
                                     !.src = src, !.dst = dst]
          IN  cp' = IF same_side(src[1], dst[1])
                    THEN [call EXCEPT !.pc = "done", !.result = {FALSE}]
                    ELSE IF ~test_connection(probe).val
                    THEN [call EXCEPT !.pc = "done", !.probe = probe,
                                      !.result = {FALSE}]
                    ELSE IF src[1]
                    THEN [call EXCEPT !.pc = "exists", !.probe = probe]
                    ELSE IF ~path_exists(fs, LocalNames[src[2]])
                    THEN [call EXCEPT !.pc = "done", !.probe = probe,
                                      !.result = {FALSE}]
                    ELSE [call EXCEPT !.pc = "upload", !.probe = probe]
    /\ UNCHANGED <<fs, remote, last, tool, server, sh>>

\* if not self.client.file_exists(src_path): return False
\* (except Exception: return False)
CopyExists ==
    /\ cp.pc = "exists"
    /\ \E reply \in Replies("file_exists", RemoteNames[cp.src[2]]) :
          LET res == file_exists(RemoteNames[cp.src[2]], reply)
          IN  cp' = IF res.out.cls # "return"
                    THEN [cp EXCEPT !.pc = "done", !.sent = @ \o res.sent,
                                    !.result = {FALSE}]
                    ELSE IF ~res.out.val
                    THEN [cp EXCEPT !.pc = "done", !.sent = @ \o res.sent,
                                    !.exists = {FALSE}, !.result = {FALSE}]
                    ELSE [cp EXCEPT !.pc = IF cp.verbose THEN "info" ELSE "download",
                                    !.sent = @ \o res.sent, !.exists = {TRUE}]
    /\ UNCHANGED <<fs, remote, last, tool, server, sh>>

\* if self.verbose: try: info = self.client.get_file_info(src_path) except: pass
CopyInfo ==
    /\ cp.pc = "info"
    /\ \E reply \in Replies("get_file_info", RemoteNames[cp.src[2]]) :
          LET res == get_file_info(RemoteNames[cp.src[2]], reply)
          IN  cp' = [cp EXCEPT !.pc = "download", !.sent = @ \o res.sent]
    /\ UNCHANGED <<fs, remote, last, tool, server, sh>>

\* success = self.client.download_file(src_path, dst_path)
CopyDownload ==
    /\ cp.pc = "download"
    /\ \E reply \in Replies("download_file", RemoteNames[cp.src[2]]) :
          LET res == download_file(RemoteNames[cp.src[2]], LocalNames[cp.dst[2]],
                                   reply)
          IN  /\ cp' = [cp EXCEPT !.pc = "done", !.sent = @ \o res.sent,
                                  !.result = IF res.out.cls # "return"
                                             THEN {FALSE} ELSE {res.out.val}]
              /\ fs' = res.fs
    /\ UNCHANGED <<remote, last, tool, server, sh>>

\* success = self.client.upload_file(src_path, dst_path)
CopyUpload ==
    /\ cp.pc = "upload"
    /\ \E reply \in Replies("upload_file", RemoteNames[cp.dst[2]]) :
          LET res == upload_file(LocalNames[cp.src[2]], RemoteNames[cp.dst[2]],
                                 reply)
          IN  /\ cp' = [cp EXCEPT !.pc = "done", !.sent = @ \o res.sent,
                                  !.result = IF res.out.cls # "return"
                                             THEN {FALSE} ELSE {res.out.val}]
              /\ remote' = AgentStore(res, reply, LocalNames[cp.src[2]])
    /\ UNCHANGED <<fs, last, tool, server, sh>>

-----------------------------------------------------------------------------
(* Specifications *)

\* the source path holds one of srcs; out/dst are both missing, or a directory
\* holding a file
FsOver(srcs) ==
    {f \in [LocalPaths -> srcs \cup {Absent, Dir, RegFile(0, <<77>>)}] :
        /\ f[<<"src">>] \in srcs
        /\ \/ f[<<"out">>] = Absent /\ f[<<"out", "dst">>] = Absent
           \/ f[<<"out">>] = Dir /\ f[<<"out", "dst">>] = RegFile(0, <<77>>)}

SampleFile == RegFile(0, <<77>>)

InitWith(fss) ==
    /\ fs \in fss
    /\ remote = [rp \in RemotePaths |-> NoStored]
    /\ last = NoCall
    /\ tool = IdleTool
    /\ server = NewServer
    /\ sh = NewSession
    /\ cp = NoCopy

\* Spec: every client operation, over a small local file system
Init == InitWith(FsOver({Absent, SampleFile}))

Next ==
    \/ LaunchBrowser
    \/ StartShell
    \/ SendShellInput
    \/ GetShellOutput
    \/ StopShell
    \/ GetShellStatus
    \/ UploadFile
    \/ DownloadFile
    \/ FileExists
    \/ GetFileInfo
    \/ DeleteFile
    \/ ListFiles
    \/ Respond

Spec == Init /\ [][Next]_vars

\* SpecFiles: upload and download over every file of the bounds
InitFiles == InitWith(FsOver(Files \cup {Absent, Dir}))

NextFiles ==
    \/ UploadFile
    \/ DownloadFile
    \/ Respond

SpecFiles == InitFiles /\ [][NextFiles]_vars

\* SpecConn: the connection probes of the client and of the MCP server
NextConn ==
    \/ TestConnection
    \/ GetStatus
    \/ TestConnectionTool
    \/ GetStatusTool
    \/ ConfigureConnection

\* SpecMcp: tool calls of the MCP server
InitMcp == InitWith({[p \in LocalPaths |-> Absent]})

SpecConn == InitMcp /\ [][NextConn]_vars

NextMcp ==
    \/ TestConnectionTool
    \/ ConfigureConnection
    \/ ShellStartTool
    \/ ShellCdTool
    \/ ShellCommandCall
    \/ ShellCommandStatus
    \/ ShellCommandStart
    \/ ShellCommandInput
    \/ ShellCommandOutput

SpecMcp == InitMcp /\ [][NextMcp]_vars

\* SpecShell: one interactive session
NextShell ==
    \/ SessionStart
    \/ SessionShellStatus
    \/ SessionStartShell
    \/ SessionInstall
    \/ SessionEnter
    \/ LoopFlush
    \/ FlushReply
    \/ LoopInput
    \/ SendReply
    \/ LoopFlushAfter
    \/ StopCheck
    \/ StopClear
    \/ StopReply
    \/ Signal
    \/ Interrupt

SpecShell == InitMcp /\ [][NextShell]_vars

\* SpecCopy: calls of the file copy tool
NextCopy ==
    \/ ParsePath
    \/ CopyFile
    \/ CopyExists
    \/ CopyInfo
    \/ CopyDownload
    \/ CopyUpload

SpecCopy == Init /\ [][NextCopy]_vars

\* SpecFlush: drains of a session that are displayed
NextFlush == FlushOutput

SpecFlush == InitMcp /\ [][NextFlush]_vars

-----------------------------------------------------------------------------
(* Properties *)

Done(op) == last.phase = "done" /\ last.op = op

\* the response the client read: urlopen returned it (a success status)
Delivered == last.reply.t = "http" /\ last.reply.status = 200
DeliveredObject == Delivered /\ last.reply.body.form = "object"

Blank(s) == \A i \in 1..Len(s) : s[i] \in Whitespace

\* t is s without its leading and trailing whitespace
TrimOf(t, s) ==
    \E a, b \in 0..Len(s) :
        /\ a + b <= Len(s)
        /\ t = SubSeq(s, a + 1, Len(s) - b)
        /\ \A i \in 1..a : s[i] \in Whitespace
        /\ \A i \in (Len(s) - b + 1)..Len(s) : s[i] \in Whitespace
        /\ t # <<>> => t[1] \notin Whitespace /\ t[Len(t)] \notin Whitespace

\* a local path that does not exist yet and can be created
NewPath(f, p) ==
    /\ f[p] = Absent
    /\ dirname(p) = <<>> \/ f[dirname(p)].kind \in {"absent", "dir"}

\* the agent answers a download with exactly what the last accepted upload to
\* that path stored
Faithful ==
    /\ Delivered
    /\ last.reply.body.form = "object"
    /\ last.reply.body.success = {TRUE}
    /\ remote[last.rpath].has
    /\ last.reply.body.content = {remote[last.rpath].content}

\* C1: upload_file of a local file of at most 100 MiB followed by download_file
\* of the same remote path to a new local path, with an agent that returns the
\* stored content unchanged, succeeds and leaves the new file byte-identical
\* to the uploaded one.
C1_RoundTrip ==
    (Done("download_file") /\ Faithful /\ NewPath(last.pre, last.local))
        => /\ last.out.cls = "return"
           /\ fs[last.local] = remote[last.rpath].orig

C3_EmptyDownloadReported ==
    (/\ Done("download_file")
     /\ DeliveredObject
     /\ last.reply.body.success = {TRUE}
     /\ last.reply.body.content \in {{}, {EmptyContent}})
        => /\ last.out.cls = "RuntimeError"
           /\ fs = last.pre

C3_Witness ==
    /\ Done("download_file")
    /\ DeliveredObject
    /\ last.reply.body.success = {TRUE}
    /\ last.reply.body.content = {EmptyContent}
    /\ last.local = <<"out", "dst">>
    /\ last.pre[<<"out">>] = Absent
    /\ last.out.cls = "RuntimeError"

\* C4: launch_browser with a URL that is not blank sends exactly one request,
\* action launch_browser with the trimmed URL; with an empty or blank URL it
\* raises ValueError and sends nothing.
C4_LaunchBrowserOnce ==
    last.op = "launch_browser" =>
        IF Blank(last.text)
        THEN /\ last.sent = <<>>
             /\ last.phase = "done"
             /\ last.out.cls = "ValueError"
        ELSE /\ Len(last.sent) = 1
             /\ last.sent[1].data.action = "launch_browser"
             /\ TrimOf(last.sent[1].data.url, last.text)

C4_Witness ==
    /\ Done("launch_browser")
    /\ last.text = <<" ", "a", " ">>
    /\ last.sent[1].data.url = <<"a">>
    /\ last.out.cls = "return"

\* C5: send_shell_input with an empty or blank command raises ValueError and
\* sends nothing; with any other command it sends exactly one shell_input
\* request.
C5_SendInputGate ==
    last.op = "send_shell_input" =>
        IF Blank(last.text)
        THEN /\ last.sent = <<>>
             /\ last.phase = "done"
             /\ last.out.cls = "ValueError"
        ELSE /\ Len(last.sent) = 1
             /\ last.sent[1].data.action = "shell_input"

C5_Witness ==
    /\ Done("send_shell_input")
    /\ last.text = <<" ", " ">>
    /\ last.sent = <<>>
    /\ last.out.cls = "ValueError"

\* C6: a shell_command tool call with an empty or blank command sends no
\* request at all, whatever auto_start is, and ends in a failure result.
C6_BlankCommandSendsNothing ==
    Blank(tool.command) =>
        /\ tool.sent = <<>>
        /\ tool.pc = "done" => ~tool.result.success

\* C7 as stated: a response without a success field is accepted like one with
\* success=true (the call ends as it does for the same response with
\* success=true).
C7_MissingSuccessAccepted ==
    (last.phase = "done" /\ DeliveredObject /\ last.reply.body.success = {})
        => last.out.cls =
              Apply(last.op, last.text, last.local, last.rpath, last.pattern,
                    [last.reply EXCEPT !.body.success = {TRUE}]).out.cls

\* C7 amended: a response without a success field is treated like one with
\* success=false: every operation raises RuntimeError with the response's error
\* field, or the generic message when it has none, and changes no local file.
C7_MissingSuccessRejected ==
    (last.phase = "done" /\ DeliveredObject /\ last.reply.body.success = {})
        => /\ last.out.cls = "RuntimeError"
           /\ last.out.tag = "Server error"
           /\ last.reply.body.error = {} => last.out.detail = UnknownError
           /\ last.reply.body.error # {} => last.reply.body.error = {last.out.detail}
           /\ fs = last.pre

C7_Witness ==
    /\ Done("get_shell_status")
    /\ DeliveredObject
    /\ last.reply.body.success = {}
    /\ last.reply.body.running = {TRUE}
    /\ last.out.cls = "RuntimeError"

\* C8: a response with success=false never yields a result; read by the client
\* it raises RuntimeError "Server error" whether or not it has an error field,
\* with the agent's message when there is one and the generic message when
\* there is none.
C8_FalseSuccessRaises ==
    (/\ last.phase = "done"
     /\ last.reply.t = "http"
     /\ last.reply.body.form = "object"
     /\ last.reply.body.success = {FALSE})
        => /\ last.out.cls # "return"
           /\ Delivered =>
                 /\ last.out.cls = "RuntimeError"
                 /\ last.out.tag = "Server error"
                 /\ last.reply.body.error = {} => last.out.detail = UnknownError
                 /\ last.reply.body.error # {} =>
                        last.reply.body.error = {last.out.detail}

C8_Witness ==
    /\ Done("get_shell_output")
    /\ DeliveredObject
    /\ last.reply.body.success = {FALSE}
    /\ last.reply.body.error = {}
    /\ last.out.cls = "RuntimeError"
    /\ last.out.detail = UnknownError

\* C9: a request that fails at the socket/connect level or times out, while
\* connecting or while waiting for the response, raises ConnectionError, never
\* RuntimeError or ValueError.
C9_ConnectivityError ==
    (/\ last.phase = "done"
     /\ last.reply.t \in {"refused", "connect_timeout", "read_timeout", "reset"})
        => IsA(last.out.cls, "ConnectionError")

C11_StatusIndependent ==
    (/\ last.phase = "done"
     /\ last.reply.t = "http"
     /\ last.reply.body.form = "object")
        => LET o == Apply(last.op, last.text, last.local, last.rpath, last.pattern,
                          [last.reply EXCEPT !.status = 200]).out
           IN  /\ last.out.cls = o.cls
               /\ last.out.tag = o.tag

\* C12: every call of a client operation sends at most one request, whether
\* the call succeeds or fails; a request that failed is not sent again.
C12_AtMostOneRequest ==
    /\ Len(last.sent) <= 1
    /\ (last.phase = "done" /\ last.out.cls # "return" /\ last.reply.t # "none")
            => Len(last.sent) = 1

C12_Witness ==
    /\ Done("delete_file")
    /\ last.reply.t = "refused"
    /\ last.out.cls = "ConnectionError"
    /\ Len(last.sent) = 1

\* C13: get_shell_output, whenever it returns, returns an output and an error
\* that are both strings, never null; each is the empty string when the
\* agent's response carries none.
C13_DrainFieldsAreStrings ==
    (Done("get_shell_output") /\ last.out.cls = "return")
        => /\ last.out.val.output # None
           /\ last.out.val.error # None
           /\ last.reply.body.output \in {{}, {<<>>}} => last.out.val.output = <<>>
           /\ last.reply.body.error \in {{}, {<<>>}} => last.out.val.error = <<>>

\* C14: a shell_start tool call, with or without a working_directory, sends
\* exactly one shell_start request and reports success=true when the agent
\* answers success=true.
C14_ShellStartTool ==
    (tool.name = "shell_start" /\ tool.pc = "done")
        => /\ Len(tool.sent) = 1
           /\ tool.sent[1].data.action = "shell_start"
           /\ tool.accepted => tool.result.success

\* C15: a shell_cd tool call with a directory sends a request to the agent and
\* reports success=true when the agent accepts it.
C15_ShellCdTool ==
    (tool.name = "shell_cd" /\ tool.pc = "done")
        => /\ Len(tool.sent) = 1
           /\ tool.accepted => tool.result.success

\* C16: when the interrupt signal arrives while the loop flag is set, then by
\* the time its handler returns the flag is clear and a shell_stop request has
\* been attempted: at most one by the handler itself, exactly one in all when
\* no other signal arrived meanwhile; an error of the request, of any class,
\* is reported, and no exception leaves the handler.
C16_InterruptTeardown ==
    [][/\ ~sh'.escaped
       /\ Len(sh'.frames) < Len(sh.frames) =>
             LET f == sh.frames[Len(sh.frames)]
                 attempted == sh'.stops - f.base
             IN  f.was_running =>
                    /\ ~sh'.running
                    /\ f.own <= 1
                    /\ attempted >= 1
                    /\ ~f.nested => f.own = 1 /\ attempted = 1
                    /\ (f.pc = "stop_wait" /\ sh'.stopped # "return") =>
                           sh'.reported = [where |-> "Error stopping shell",
                                           cls |-> sh'.stopped]]_vars

\* the handler ran while the loop was reading a line, and its request failed
C16_Witness ==
    /\ sh.pc = "input"
    /\ sh.frames = <<>>
    /\ sh.signals = 1
    /\ ~sh.running
    /\ sh.stops = 1
    /\ sh.stopped = "RuntimeError"
    /\ sh.reported = [where |-> "Error stopping shell", cls |-> "RuntimeError"]
    /\ ~sh.escaped

\* C17: in every state of an interactive session at most one request is
\* outstanding.
C17_OneOutstanding == sh.inflight <= 1

\* C18: when the host is unreachable, test_connection returns false, get_status
\* returns a record with connected=false, neither raises, and the
\* test_connection tool returns a result with connected=false.
C18_UnreachableIsReported ==
    /\ (last.op = "test_connection" /\ last.probe # "connected")
          => last.out.cls = "return" /\ last.out.val = FALSE
    /\ (last.op = "get_status" /\ last.probe # "connected")
          => last.out.cls = "return" /\ last.out.val.connected = FALSE
    /\ (tool.name = "test_connection" /\ tool.probe # "connected")
          => tool.pc = "done" /\ tool.result.connected = FALSE

C18_Witness ==
    /\ last.op = "get_status"
    /\ last.probe = "unresolved"
    /\ last.out.cls = "return"
    /\ last.out.val.connected = FALSE
    /\ tool.name = "test_connection"
    /\ tool.probe = "refused"
    /\ tool.result.connected = FALSE

\* C19: whenever the MCP server holds a client, the client's host, port and
\* base URL are the server's host and port; no step changes a field of an
\* existing client, and configure_connection puts a new client in its place.
C19_ClientMatchesServer ==
    /\ [](\A c \in server.client :
            /\ c.host = server.host
            /\ c.port = server.port
            /\ c.base_url = <<"http://", server.host, ":", server.port, "/">>)
    /\ [][/\ \A c \in server.client, d \in server'.client : c.id = d.id => c = d
          /\ ConfigureConnection =>
                /\ server'.client # {}
                /\ \A c \in server.client, d \in server'.client : c.id # d.id]_vars

C19_Witness ==
    /\ server.host = "10.0.0.2"
    /\ server.port = DefaultPort
    /\ \E c \in server.client : c.id >= 2 /\ c.host = "10.0.0.2" /\ c.port = DefaultPort

\* C20: a shell_command tool call with auto_start and a command that is not
\* blank, every request of which the agent accepts, sends shell_status,
\* shell_start, shell_input, shell_output when the status answer was
\* running=false and shell_status, shell_input, shell_output when it was
\* running=true, and returns success=true with the drained output and error.
C20_AutoStartSequence ==
    (/\ tool.name = "shell_command"
     /\ tool.pc = "done"
     /\ tool.auto_start
     /\ ~Blank(tool.command)
     /\ tool.accepted
     /\ tool.running # {})
        => /\ [i \in 1..Len(tool.sent) |-> tool.sent[i].data.action] =
                 IF tool.running = {TRUE}
                 THEN <<"shell_status", "shell_input", "shell_output">>
                 ELSE <<"shell_status", "shell_start", "shell_input", "shell_output">>
           /\ tool.result.success
           /\ tool.result.output = Get(tool.drained.output, <<>>)
           /\ tool.result.error = Get(tool.drained.error, <<>>)

\* C22: every way of leaving the interactive loop once it was entered results
\* in exactly one shell_stop request over the whole session.
C22_ExactlyOneStop ==
    (sh.pc = "exited" /\ sh.installed) => sh.stops = 1

\* C25: once stop() has run (the flag cleared and shell_stop sent), the session
\* sends no further shell_input or shell_output request.
C25_NothingAfterStop ==
    \A i, j \in 1..Len(sh.sent) :
        (i < j /\ sh.sent[i] = "shell_stop")
            => sh.sent[j] \notin {"shell_input", "shell_output"}

\* the requests of the loop among those the session has sent
LoopRequests(sent) ==
    SelectSeq(sent, LAMBDA a : a \in {"shell_input", "shell_output"})

\* the thread of the session moves from position p
LeavesPc(p) == sh.pc = p /\ sh'.pc # p

\* c, without surrounding whitespace and in any letter case, is the word exit
ExitWord(c) ==
    \E word \in {<<e, x, i, t>> : e \in {"e", "E"}, x \in {"x", "X"},
                                   i \in {"i", "I"}, t \in {"t", "T"}} :
        TrimOf(word, c)

\* what an iteration of the loop sends, when the lines that end the loop are
\* those for which ends(c) holds
LoopCycle(ends(_)) ==
    /\ LeavesPc("loop") /\ sh'.pc # "stop"
          => sh'.pc = "flush1_wait" /\ sh'.sent = Append(sh.sent, "shell_output")
    /\ LeavesPc("flush1_wait") => sh'.pc = "input" /\ sh'.sent = sh.sent
    /\ LeavesPc("input") =>
          LET c == sh'.line
              before == LoopRequests(sh.sent)
          IN  /\ before # <<>> /\ before[Len(before)] = "shell_output"
              /\ IF c = EOF \/ ends(c)
                 THEN sh'.pc = "stop" /\ sh'.sent = sh.sent
                 ELSE IF Blank(c)
                 THEN sh'.pc = "loop" /\ sh'.sent = sh.sent
                 ELSE sh'.pc = "send_wait"
                      /\ sh'.sent = Append(sh.sent, "shell_input")
    /\ LeavesPc("send_wait") /\ sh'.exc = "" => sh'.pc = "sleep" /\ sh'.sent = sh.sent
    /\ LeavesPc("sleep")
          => sh'.pc = "flush2_wait" /\ sh'.sent = Append(sh.sent, "shell_output")
    /\ LeavesPc("flush2_wait") => sh'.pc = "loop" /\ sh'.sent = sh.sent

\* C21 as stated: each iteration sends one drain before it reads a line; a
\* line equal to exit ends the loop without being sent; every other non-blank
\* line is sent as exactly one shell_input, followed by one drain before the
\* next iteration; a blank line sends no shell_input.
C21_ExitIsTheOnlyWord ==
    [][LoopCycle(LAMBDA c : c = Exit)]_vars

\* C21: each iteration sends one drain before it reads a line; a line that is
\* the word exit once its surrounding whitespace is removed and its letters
\* are lowered ends the loop without being sent; every other non-blank line is
\* sent as exactly one shell_input, which, when the send returns, is followed
\* by one drain before the next iteration; a blank line sends no shell_input.
C21_LoopCycle ==
    [][LoopCycle(ExitWord)]_vars

\* a line was sent and drained, the next iteration drained again, and the
\* line " EXIT" ended the loop
C21_Witness ==
    /\ sh.pc = "stop"
    /\ sh.frames = <<>>
    /\ sh.line = <<" ", "E", "X", "I", "T">>
    /\ sh.sent = <<"shell_status", "shell_output", "shell_input",
                   "shell_output", "shell_output">>

\* the session has entered _run_shell_loop
Entered ==
    \/ sh.pc \in {"loop", "flush1_wait", "input", "send_wait", "sleep",
                  "flush2_wait", "stop", "stop_clear", "stop_wait", "crashed"}
    \/ sh.pc = "exited" /\ sh.installed

\* C29: start sends shell_start only after a shell_status request that
\* answered not running; it enters the loop only after the probe succeeded and
\* neither shell_status nor shell_start raised an error; when it returns false
\* without entering the loop it has sent no shell_input, shell_output or
\* shell_stop.
C29_StartSequence ==
    /\ \A j \in 1..Len(sh.sent) :
          sh.sent[j] = "shell_start"
              => j = 2 /\ sh.sent[1] = "shell_status" /\ sh.answer = "false"
    /\ Entered =>
          /\ sh.probe = "connected"
          /\ sh.answer \in {"true", "false"}
          /\ sh.answer = "false" => Len(sh.sent) >= 2 /\ sh.sent[2] = "shell_start"
          /\ sh.reported.where # "Error starting shell"
    /\ sh.pc = "returned" =>
          /\ ~sh.installed /\ ~sh.running
          /\ \A j \in 1..Len(sh.sent) :
                sh.sent[j] \notin {"shell_input", "shell_output", "shell_stop"}

\* the shell was not running, start started it and the loop reads its first
\* line
C29_Witness ==
    /\ sh.pc = "input"
    /\ sh.answer = "false"
    /\ sh.sent = <<"shell_status", "shell_start", "shell_output">>

\* C30: an error while sending a command is reported, ends the loop and is
\* followed by the teardown; an error while draining is reported and the loop
\* goes on (to read the next line after the first drain of an iteration, to
\* the next iteration after the second); in neither case does the error leave
\* the loop.
C30_LoopErrors ==
    [][/\ LeavesPc("send_wait") /\ sh'.exc # "" =>
             /\ sh'.pc = "stop"
             /\ sh'.sent = sh.sent
             /\ sh'.reported = [where |-> "Error sending command", cls |-> sh'.exc]
       /\ LeavesPc("flush1_wait") /\ sh'.exc # "" =>
             /\ sh'.pc = "input"
             /\ sh'.reported = [where |-> "Error getting output", cls |-> sh'.exc]
       /\ LeavesPc("flush2_wait") /\ sh'.exc # "" =>
             /\ sh'.pc = "loop"
             /\ sh'.reported = [where |-> "Error getting output", cls |-> sh'.exc]
       /\ LeavesPc("stop") =>
             sh'.pc = IF sh.running THEN "stop_clear" ELSE "exited"
       /\ LeavesPc("stop_clear") =>
             /\ sh'.pc = "stop_wait"
             /\ ~sh'.running
             /\ sh'.sent = Append(sh.sent, "shell_stop")
       /\ ~sh'.escaped]_vars

\* the send of the second line failed, the loop ended and the teardown has
\* sent shell_stop
C30_Witness ==
    /\ sh.pc = "stop_wait"
    /\ sh.frames = <<>>
    /\ sh.signals = 0
    /\ sh.rounds = 2
    /\ sh.reported = [where |-> "Error sending command", cls |-> "ConnectionError"]
    /\ sh.sent[Len(sh.sent)] = "shell_stop"
    /\ sh.sent[Len(sh.sent) - 1] = "shell_input"

\* C28: every non-empty output text and every non-empty error text that a
\* drain of the session returned is displayed, the output and the error each
\* as it was returned.
C28_DrainedTextDisplayed ==
    (last.op = "get_shell_output" /\ last.phase = "done" /\ last.out.cls = "return")
        => LET drained == last.out.val
           IN  /\ drained.output \notin {<<>>, None}
                     => sh.shown.output = drained.output
               /\ drained.error \notin {<<>>, None}
                     => sh.shown.error = drained.error

\* C26: all requests of one shell_command call go to the same connection
\* target, also when configure_connection runs while the call waits.
C26_OneTarget ==
    tool.name = "shell_command"
        => \A i, j \in 1..Len(tool.targets) : tool.targets[i] = tool.targets[j]

\* C27: the get_status tool reports connected equal to the result of the
\* probe: true whenever the probe succeeded, also when the shell_status request
\* that follows fails; false, with shell_running false and no shell_status
\* request, when the probe failed.
C27_ConnectedIsProbe ==
    (tool.name = "get_status" /\ tool.pc = "done")
        => /\ tool.result.connected = (tool.probe = "connected")
           /\ tool.probe # "connected"
                 => ~tool.result.shell_running /\ tool.sent = <<>>

\* the texts that path ends with
Tails(path) == {SubSeq(path, k, Len(path)) : k \in 1..(Len(path) + 1)}

\* path is "remote:" followed by p
RemoteOf(path, p) == path = Prefix \o p

IsRemote(path) == \E p \in Tails(path) : RemoteOf(path, p)

\* C23: parse_path returns (true, p) for every path text "remote:" + p and
\* (false, path), the text unchanged, for every other; prefixing the path of a
\* remote result with "remote:" gives back the input.
C23_ParsePath ==
    cp.pc # "idle" =>
        /\ \A p \in Tails(cp.source) :
              RemoteOf(cp.source, p) => cp.src = <<TRUE, p>>
        /\ ~IsRemote(cp.source) => cp.src = <<FALSE, cp.source>>
        /\ cp.src[1] => Prefix \o cp.src[2] = cp.source

\* parse_path was applied to "remote:remote:a"
C23_Witness ==
    /\ cp.pc = "parsed"
    /\ cp.source = Prefix \o Prefix \o <<"a">>
    /\ cp.src = <<TRUE, Prefix \o <<"a">>>>

\* the actions of the requests copy_file has sent
CopyRequests == [i \in 1..Len(cp.sent) |-> cp.sent[i].data.action]

\* C24: copy_file returns false, makes no connection attempt and sends no
\* request when both paths are local or both are remote; when exactly one is
\* remote it downloads only if the source is remote and uploads only if the
\* destination is remote; a download is sent only after a file_exists request
\* that answered true.
C24_CopyDirection ==
    cp.pc \notin {"idle", "parsed"} =>
        LET src_remote == IsRemote(cp.source)
            dst_remote == IsRemote(cp.destination)
        IN  /\ src_remote = dst_remote =>
                  /\ cp.pc = "done" /\ cp.result = {FALSE}
                  /\ cp.probe = "" /\ cp.sent = <<>>
            /\ \A i \in 1..Len(cp.sent) :
                  /\ CopyRequests[i] = "file_download" =>
                        /\ src_remote /\ ~dst_remote
                        /\ \E j \in 1..(i - 1) : CopyRequests[j] = "file_exists"
                        /\ cp.exists = {TRUE}
                  /\ CopyRequests[i] = "file_upload" => dst_remote /\ ~src_remote
                  /\ CopyRequests[i] \in {"file_exists", "file_info"} => src_remote

\* a download that succeeded, after file_exists and file_info
C24_Witness ==
    /\ cp.pc = "done"
    /\ cp.result = {TRUE}
    /\ cp.source = Prefix \o <<"a">>
    /\ cp.destination = <<"s">>
    /\ CopyRequests = <<"file_exists", "file_info", "file_download">>

====
